---- MODULE Spec2Model ----
(***************************************************************************)
(* A model of PK-mini's timing and control-surface core:                   *)
(*   BPMManager          (src/src/rhythm/BPMManager.ts)                    *)
(*   APCMiniMK2Manager   (src/unnamed/part_009)                            *)
(*   APCMiniMK2Sequencer (src/src/midi/APCMiniMK2Sequencer.ts)             *)
(*                                                                         *)
(* JavaScript numbers are modelled as exact rationals extended with        *)
(* +Infinity, -Infinity and NaN: a pair <<n, d>> with d > 0 in lowest      *)
(* terms is n/d; <<1, 0>> is +Infinity, <<-1, 0>> is -Infinity and         *)
(* <<0, 0>> is NaN.  Wall-clock times (performance.now()) are integers in  *)
(* milliseconds.                                                           *)
(***************************************************************************)
EXTENDS Integers, Sequences, FiniteSets, TLC

\* ------------------------------------------------------------------ bounds

\* performance.now() values are multiples of TimeStep, at most MaxTicks * TimeStep.
MaxTicks == 9
\* updates are explored while beatCount >= -MaxBackBeats (a negative interval
\* makes every update count backwards, without end).
MaxBackBeats == 2
\* at most MaxBatch MIDI messages arrive between two updates.
MaxBatch == 2
\* in the runs at a constant tempo, updates arrive up to MaxSteadyTicks time
\* steps after startup.
MaxSteadyTicks == 40
\* in the runs on tap pauses, taps arrive up to MaxTapTicks time steps after
\* startup.
MaxTapTicks == 20
\* the host draws frames up to MaxSceneTicks time steps after startup.
MaxSceneTicks == 3


\* --------------------------------------------------- JavaScript numbers

Abs(x) == IF x < 0 THEN -x ELSE x

RECURSIVE GCD(_, _)
GCD(a, b) == IF b = 0 THEN a ELSE GCD(b, a % b)

NaN == <<0, 0>>
PosInf == <<1, 0>>
NegInf == <<-1, 0>>

\* n/d, d # 0, in lowest terms with a positive denominator.
Rat(n, d) ==
    LET g == GCD(Abs(n), Abs(d))
        s == IF d < 0 THEN -1 ELSE 1
    IN <<(s * n) \div g, (s * d) \div g>>

Num(i) == <<i, 1>>

IsNaN(a) == a = NaN
IsFin(a) == a[2] > 0
IsInf(a) == a = PosInf \/ a = NegInf
Sign(a)  == IF a[1] > 0 THEN 1 ELSE IF a[1] < 0 THEN -1 ELSE 0

\* a + b
NumAdd(a, b) ==
    IF IsNaN(a) \/ IsNaN(b) THEN NaN
    ELSE IF IsInf(a) /\ IsInf(b) THEN (IF a = b THEN a ELSE NaN)
    ELSE IF IsInf(a) THEN a
    ELSE IF IsInf(b) THEN b
    ELSE Rat(a[1] * b[2] + b[1] * a[2], a[2] * b[2])

\* a / b (a zero divisor is +0)
NumDiv(a, b) ==
    IF IsNaN(a) \/ IsNaN(b) THEN NaN
    ELSE IF IsInf(a) THEN (IF IsInf(b) THEN NaN
                           ELSE IF Sign(b) < 0 THEN <<-a[1], 0>> ELSE a)
    ELSE IF IsInf(b) THEN Num(0)
    ELSE IF b[1] = 0 THEN <<Sign(a), 0>>
    ELSE Rat(a[1] * b[2], a[2] * b[1])

\* a >= b
NumGeq(a, b) ==
    IF IsNaN(a) \/ IsNaN(b) THEN FALSE
    ELSE IF a = b THEN TRUE
    ELSE IF a = PosInf \/ b = NegInf THEN TRUE
    ELSE IF a = NegInf \/ b = PosInf THEN FALSE
    ELSE a[1] * b[2] >= b[1] * a[2]

\* a < b
NumLt(a, b) == ~IsNaN(a) /\ ~IsNaN(b) /\ ~NumGeq(a, b)

\* a !== b
NumNeq(a, b) == IsNaN(a) \/ IsNaN(b) \/ a # b

\* floor of the integer quotient n / d, d > 0
FloorDiv(n, d) == IF n >= 0 THEN n \div d ELSE -((-n + d - 1) \div d)

\* Math.floor(a)
NumFloor(a) == IF IsFin(a) THEN Num(FloorDiv(a[1], a[2])) ELSE a

\* Math.round(a): the nearest integer, halves rounded up
NumRound(a) == IF IsFin(a) THEN Num(FloorDiv(2 * a[1] + a[2], 2 * a[2])) ELSE a

\* a % b: the remainder of the truncated division, with the dividend's sign
NumMod(a, b) ==
    IF IsNaN(a) \/ IsNaN(b) \/ IsInf(a) THEN NaN
    ELSE IF IsInf(b) THEN a
    ELSE IF b[1] = 0 THEN NaN
    ELSE LET p == Abs(a[1]) * b[2]
             q == Abs(b[1]) * a[2]
         IN Rat(Sign(a) * (p % q), a[2] * b[2])

\* ------------------------------------------------------------ constants

TAP_HISTORY_SIZE == 4
TAP_TIMEOUT == 2000
MS_PER_MINUTE == 60000
DEFAULT_BPM == 120

\* pendingBPM = null
Null == <<>>

\* the grain of time: half a beat at the default tempo (250 ms)
TimeStep == (MS_PER_MINUTE \div DEFAULT_BPM) \div 2
Times == {k * TimeStep : k \in 0..MaxTicks}

\* ---------------------------------------------------------------- state

VARIABLES
    now,              \* the last value performance.now() returned
    bpm, interval, lastUpdateTime, elapsed, beatCount,
    isPlaying, isBeatUpdated, pendingBPM, pendingBPMChange, tapTimes

clockVars == <<now, bpm, interval, lastUpdateTime, elapsed, beatCount,
               isPlaying, isBeatUpdated, pendingBPM, pendingBPMChange, tapTimes>>

VARIABLES
    faderValues,             \* 127 times the fader value (data2 / 127), by index
    faderValuesPrev,         \* 127 times the last raw reading, by index
    faderButtonToggleState, faderRandomModeActive,
    sideButtonToggleState, sideButtonRadioNum,
    sequencePatterns,
    midiSuccess,             \* MIDIManager: the MIDI output is open
    currentStep,             \* the columnIndex the host handed to the last update
    sent,                    \* the messages the last operation sent, in order
    batch,                   \* history: the messages handled since the last update, in order
    atTick,                  \* history: sequencePatterns and sideButtonRadioNum at the last update
    lastOp,                  \* history: the last operation, a message or <<name, argument>>
    before,                  \* history: the device state the last operation started from
    prevClearFaderValue,     \* SceneManager: 127 times the ninth fader's value at the last frame
    rendered                 \* the step values the renderers read in the last frame, by pattern

deviceVars == <<faderValues, faderValuesPrev, faderButtonToggleState,
                faderRandomModeActive, sideButtonToggleState, sideButtonRadioNum,
                sequencePatterns>>
historyVars == <<batch, atTick, lastOp, before>>
sceneVars == <<prevClearFaderValue, rendered>>
midiVars == <<deviceVars, midiSuccess, currentStep, sent, historyVars, sceneVars>>

vars == <<clockVars, midiVars>>

\* ----------------------------------------------------------- BPMManager

\* new BPMManager(): the constructor ends with start()
BPMInit ==
    /\ now = 0
    /\ bpm = Num(DEFAULT_BPM)
    /\ interval = NumDiv(Num(MS_PER_MINUTE), Num(DEFAULT_BPM))
    /\ beatCount = Num(0)
    /\ isPlaying = TRUE
    /\ lastUpdateTime = 0
    /\ elapsed = Num(0)
    /\ isBeatUpdated = FALSE
    /\ pendingBPM = Null
    /\ pendingBPMChange = FALSE
    /\ tapTimes = <<>>

\* new BPMManager(initialBPM)
BPMInitWith(initialBPM) ==
    /\ now = 0
    /\ bpm = initialBPM
    /\ interval = NumDiv(Num(MS_PER_MINUTE), initialBPM)
    /\ beatCount = Num(0)
    /\ isPlaying = TRUE
    /\ lastUpdateTime = 0
    /\ elapsed = Num(0)
    /\ isBeatUpdated = FALSE
    /\ pendingBPM = Null
    /\ pendingBPMChange = FALSE
    /\ tapTimes = <<>>

\* getBeat()
getBeat == NumAdd(beatCount, NumDiv(elapsed, interval))

\* getBPM()
getBPM == bpm

\* a flag that stays up once a beat has been counted
beatUpdatedSinceStart == isBeatUpdated \/ NumLt(Num(0), beatCount)

\* isBeatUpdatedNow()
isBeatUpdatedNow == isBeatUpdated

\* what setBPM(newBPM) leaves in <<pendingBPM, pendingBPMChange>>
stagedBy(newBPM) ==
    IF NumNeq(newBPM, bpm) THEN <<newBPM, TRUE>>
    ELSE <<pendingBPM, pendingBPMChange>>

\* a setBPM that installs the tempo at once, mid-beat
setBPMImmediately(newBPM) ==
    /\ bpm' = newBPM
    /\ interval' = NumDiv(Num(MS_PER_MINUTE), newBPM)
    /\ UNCHANGED <<now, lastUpdateTime, elapsed, beatCount, isPlaying,
                   isBeatUpdated, tapTimes, pendingBPM, pendingBPMChange>>

\* setBPM(newBPM)
setBPM(newBPM) ==
    /\ pendingBPM' = stagedBy(newBPM)[1]
    /\ pendingBPMChange' = stagedBy(newBPM)[2]
    /\ UNCHANGED <<now, bpm, interval, lastUpdateTime, elapsed, beatCount,
                   isPlaying, isBeatUpdated, tapTimes>>

\* a start that restarts a running clock too
startAlways(t) ==
    /\ now' = t
    /\ isPlaying' = TRUE
    /\ lastUpdateTime' = t
    /\ beatCount' = Num(0)
    /\ UNCHANGED <<bpm, interval, elapsed, isBeatUpdated, pendingBPM,
                   pendingBPMChange, tapTimes>>

\* start() when performance.now() would return t: the clock is read only if
\* the manager is stopped
start(t) ==
    /\ now' = IF ~isPlaying THEN t ELSE now
    /\ IF ~isPlaying
         THEN /\ isPlaying' = TRUE
              /\ lastUpdateTime' = t
              /\ beatCount' = Num(0)
         ELSE UNCHANGED <<isPlaying, lastUpdateTime, beatCount>>
    /\ UNCHANGED <<bpm, interval, elapsed, isBeatUpdated, pendingBPM,
                   pendingBPMChange, tapTimes>>

\* stop()
stop ==
    /\ isPlaying' = FALSE
    /\ UNCHANGED <<now, bpm, interval, lastUpdateTime, elapsed, beatCount,
                   isBeatUpdated, pendingBPM, pendingBPMChange, tapTimes>>

\* the beats a phase of e milliseconds spans at the interval in force
beatIncrements(e) == NumFloor(NumDiv(e, interval))

\* a phase that restarts from 0 at every beat
phaseDropped(e) == Num(0)

\* the phase left of e milliseconds once whole beats are taken out
phaseAfter(e) == NumMod(e, interval)

\* a staged tempo that no boundary commits
commitsNever == FALSE

\* the pending tempo is committed at a beat boundary
commitsPending == pendingBPMChange /\ pendingBPM # Null

\* an update that runs whether the clock is stopped or not
updateAlways(t) ==
    LET delta == t - lastUpdateTime
        e == NumAdd(elapsed, Num(delta))
    IN /\ now' = t
       /\ lastUpdateTime' = t
       /\ IF NumGeq(e, interval)
            THEN /\ beatCount' = NumAdd(beatCount, beatIncrements(e))
                 /\ elapsed' = phaseAfter(e)
                 /\ isBeatUpdated' = TRUE
            ELSE /\ elapsed' = e
                 /\ isBeatUpdated' = FALSE
                 /\ UNCHANGED beatCount
       /\ UNCHANGED <<bpm, interval, pendingBPM, pendingBPMChange, isPlaying, tapTimes>>

\* update() when performance.now() returns t
update(t) ==
    /\ now' = t
    /\ IF ~isPlaying
         THEN /\ isBeatUpdated' = FALSE
              /\ UNCHANGED <<bpm, interval, lastUpdateTime, elapsed, beatCount,
                             pendingBPM, pendingBPMChange>>
         ELSE LET delta == t - lastUpdateTime
                  e == NumAdd(elapsed, Num(delta))
              IN /\ lastUpdateTime' = t
                 /\ IF NumGeq(e, interval)
                      THEN /\ beatCount' = NumAdd(beatCount, beatIncrements(e))
                           /\ elapsed' = phaseAfter(e)
                           /\ IF commitsPending
                                THEN /\ bpm' = pendingBPM
                                     /\ interval' = NumDiv(Num(MS_PER_MINUTE), pendingBPM)
                                     /\ pendingBPM' = Null
                                     /\ pendingBPMChange' = FALSE
                                ELSE UNCHANGED <<bpm, interval, pendingBPM,
                                                 pendingBPMChange>>
                           /\ isBeatUpdated' = TRUE
                      ELSE /\ elapsed' = e
                           /\ isBeatUpdated' = FALSE
                           /\ UNCHANGED <<bpm, interval, beatCount, pendingBPM,
                                          pendingBPMChange>>
    /\ UNCHANGED <<isPlaying, tapTimes>>

\* a tap history that no pause discards
tapsAfterKeepAll(t) ==
    LET pushed == Append(tapTimes, t)
    IN IF Len(pushed) > TAP_HISTORY_SIZE THEN Tail(pushed) ELSE pushed

\* a tap history with no cap
tapsAfterUncapped(t) ==
    LET kept == IF Len(tapTimes) > 0 /\ t - tapTimes[Len(tapTimes)] > TAP_TIMEOUT
                  THEN <<>> ELSE tapTimes
    IN Append(kept, t)

\* the tap history after a tap at time t
tapsAfter(t) ==
    LET kept == IF Len(tapTimes) > 0 /\ t - tapTimes[Len(tapTimes)] > TAP_TIMEOUT
                  THEN <<>> ELSE tapTimes
        pushed == Append(kept, t)
    IN IF Len(pushed) > TAP_HISTORY_SIZE THEN Tail(pushed) ELSE pushed

RECURSIVE SumIntervals(_, _)
SumIntervals(taps, i) ==
    IF i > Len(taps) THEN 0
    ELSE (taps[i] - taps[i - 1]) + SumIntervals(taps, i + 1)

\* a tempo taken from the last interval alone
bpmFromLastInterval(taps) ==
    NumRound(NumDiv(Num(MS_PER_MINUTE), Num(taps[Len(taps)] - taps[Len(taps) - 1])))

\* calculateBPMFromTaps(): the tempo handed to setBPM for a history of >= 2 taps
bpmFromTaps(taps) ==
    LET sum == SumIntervals(taps, 2)
        averageInterval == NumDiv(Num(sum), Num(Len(taps) - 1))
    IN NumRound(NumDiv(Num(MS_PER_MINUTE), averageInterval))

\* tapTempo() when performance.now() returns t
tapTempo(t) ==
    /\ now' = t
    /\ tapTimes' = tapsAfter(t)
    /\ IF Len(tapsAfter(t)) >= 2
         THEN /\ pendingBPM' = stagedBy(bpmFromTaps(tapsAfter(t)))[1]
              /\ pendingBPMChange' = stagedBy(bpmFromTaps(tapsAfter(t)))[2]
         ELSE UNCHANGED <<pendingBPM, pendingBPMChange>>
    /\ UNCHANGED <<bpm, interval, lastUpdateTime, elapsed, beatCount,
                   isPlaying, isBeatUpdated>>


\* ------------------------------------------------------ JavaScript arrays

\* An array is a function on the indices that hold an element (a sparse array
\* has holes); reading a hole or past the end gives undefined.
Undefined == -1

Get(arr, i) == IF i \in DOMAIN arr THEN arr[i] ELSE Undefined

\* arr[i] = v
Put(arr, i, v) == [j \in (DOMAIN arr) \cup {i} |-> IF j = i THEN v ELSE arr[j]]

SetMax(S) == CHOOSE x \in S : \A y \in S : y <= x
SetMin(S) == CHOOSE x \in S : \A y \in S : x <= y

\* arr.length
Length(arr) == IF DOMAIN arr = {} THEN 0 ELSE SetMax(DOMAIN arr) + 1

\* the elements of S in ascending order
RECURSIVE Ascending(_)
Ascending(S) == IF S = {} THEN <<>>
                ELSE <<SetMin(S)>> \o Ascending(S \ {SetMin(S)})

\* a 0/1 flag read in a condition: a hole (undefined) and 0 are false
Truthy(arr, i) == i \in DOMAIN arr /\ arr[i] > 0

\* a boolean flag read in a condition: a hole (undefined) is false
IsActive(arr, i) == i \in DOMAIN arr /\ arr[i]

\* ------------------------------------------------------- MIDI constants

NOTE_ON == 144
NOTE_OFF == 128
CONTROL_CHANGE == 176
GRID_LED_STATUS == 150

GRID_START == 0
GRID_END == 63
FADER_BUTTONS_START == 100
FADER_BUTTONS_END == 107
SIDE_BUTTONS_START == 112
SIDE_BUTTONS_END == 119
FADERS_START == 48
FADERS_END == 56
FADER_BUTTON_8 == 122

GRID_COLS == 8
GRID_ROWS == 8

APC_OFF == 0
APC_WHITE == 3
PATTERN_COLORS == <<5, 60, 56, 53, 45, 37, 32, 21>>
MAX_INTENSITY_OFFSET == 124
MIDI_MAX == 127

\* ---------------------------------------------------- APCMiniMK2Manager

ManagerInit ==
    /\ faderValues = [i \in 0..8 |-> 0]
    /\ faderValuesPrev = [i \in 0..8 |-> 0]
    /\ faderButtonToggleState = [i \in 0..8 |-> 0]
    /\ faderRandomModeActive = [i \in 0..8 |-> FALSE]
    /\ sideButtonToggleState = [i \in 0..7 |-> 0]
    /\ sideButtonRadioNum = 0

\* a message is <<status, data1, data2>>
IsNote(status) == status = NOTE_ON \/ status = NOTE_OFF

\* fader buttons that answer to note-on only
IsFaderButtonMsgNoteOn(m) ==
    /\ m[1] = NOTE_ON
    /\ \/ (m[2] >= FADER_BUTTONS_START /\ m[2] <= FADER_BUTTONS_END)
       \/ m[2] = FADER_BUTTON_8

IsFaderButtonMsg(m) ==
    /\ IsNote(m[1])
    /\ \/ (m[2] >= FADER_BUTTONS_START /\ m[2] <= FADER_BUTTONS_END)
       \/ m[2] = FADER_BUTTON_8

IsSideButtonMsg(m) ==
    /\ ~IsFaderButtonMsg(m)
    /\ m[1] = NOTE_ON
    /\ m[2] >= SIDE_BUTTONS_START /\ m[2] <= SIDE_BUTTONS_END

\* a fader range with no upper end
IsFaderMsgUnbounded(m) ==
    /\ ~IsFaderButtonMsg(m)
    /\ ~IsSideButtonMsg(m)
    /\ m[1] = CONTROL_CHANGE
    /\ m[2] >= FADERS_START

IsFaderMsg(m) ==
    /\ ~IsFaderButtonMsg(m)
    /\ ~IsSideButtonMsg(m)
    /\ m[1] = CONTROL_CHANGE
    /\ m[2] >= FADERS_START /\ m[2] <= FADERS_END

\* the index a fader-button note addresses
faderButtonIndex(data1) ==
    IF data1 >= FADER_BUTTONS_START THEN data1 - FADER_BUTTONS_START ELSE 8

\* a fader value that no reading or toggle ever refreshes
updateFaderValueNever(values, prev, active, index) == values

\* a fader value that follows the reading in random mode too
updateFaderValueAlways(values, prev, active, index) ==
    Put(values, index, Get(prev, index))

\* updateFaderValue(index) on the arrays given
updateFaderValue(values, prev, active, index) ==
    IF ~IsActive(active, index) THEN Put(values, index, Get(prev, index)) ELSE values

\* the pattern selected once the Manager has handled m
radioAfter(m) ==
    IF IsSideButtonMsg(m) /\ m[3] > 0 THEN m[2] - SIDE_BUTTONS_START
    ELSE sideButtonRadioNum

\* pattern-select flags that toggle one by one, the others kept
sideTogglesFlipped(m) ==
    IF IsSideButtonMsg(m) /\ m[3] > 0
      THEN [sideButtonToggleState EXCEPT ![m[2] - SIDE_BUTTONS_START] = 1 - @]
      ELSE sideButtonToggleState

\* the pattern-select flags once the Manager has handled m
sideTogglesAfter(m) ==
    IF IsSideButtonMsg(m) /\ m[3] > 0
      THEN [i \in DOMAIN sideButtonToggleState |->
              IF i = m[2] - SIDE_BUTTONS_START THEN 1 ELSE 0]
      ELSE sideButtonToggleState

\* APCMiniMK2Manager.handleMIDIMessage(m)
ManagerHandle(m) ==
    /\ sideButtonRadioNum' = radioAfter(m)
    /\ sideButtonToggleState' = sideTogglesAfter(m)
    /\ IF IsFaderButtonMsg(m) /\ m[3] > 0
         THEN LET index == faderButtonIndex(m[2])
                  on == ~IsActive(faderRandomModeActive, index)
                  active == Put(faderRandomModeActive, index, on)
              IN /\ faderRandomModeActive' = active
                 /\ faderButtonToggleState' =
                        Put(faderButtonToggleState, index, IF on THEN 1 ELSE 0)
                 /\ faderValues' =
                        IF ~on THEN updateFaderValue(faderValues, faderValuesPrev,
                                                     active, index)
                        ELSE faderValues
                 /\ UNCHANGED faderValuesPrev
         ELSE IF IsFaderMsg(m)
           THEN LET index == m[2] - FADERS_START
                    prev == Put(faderValuesPrev, index, m[3])
                IN /\ faderValuesPrev' = prev
                   /\ faderValues' = updateFaderValue(faderValues, prev,
                                                      faderRandomModeActive, index)
                   /\ UNCHANGED <<faderRandomModeActive, faderButtonToggleState>>
           ELSE UNCHANGED <<faderValues, faderValuesPrev, faderRandomModeActive,
                            faderButtonToggleState>>

\* the outcomes of one update of a fader in random mode
Pulses == {"one", "zero", "keep"}

\* an update in which a fader in random mode shows the raw reading between pulses
faderValuesFollowRaw(pulse) ==
    LET n == Length(faderRandomModeActive)
    IN [i \in (DOMAIN faderValues) \cup (0..(n - 1)) |->
          IF i >= n THEN faderValues[i]
          ELSE IF IsActive(faderRandomModeActive, i) /\ pulse[i] = "one" THEN MIDI_MAX
          ELSE IF IsActive(faderRandomModeActive, i) /\ pulse[i] = "zero" THEN 0
          ELSE Get(faderValuesPrev, i)]

\* faderValues after APCMiniMK2Manager.update(), pulse[i] the outcome of the
\* two Math.random() draws for the fader i in random mode
faderValuesAfterUpdate(pulse) ==
    LET n == Length(faderRandomModeActive)
    IN [i \in (DOMAIN faderValues) \cup (0..(n - 1)) |->
          IF i >= n THEN faderValues[i]
          ELSE IF IsActive(faderRandomModeActive, i)
            THEN (IF pulse[i] = "one" THEN MIDI_MAX
                  ELSE IF pulse[i] = "zero" THEN 0
                  ELSE Get(faderValues, i))
            ELSE Get(faderValuesPrev, i)]

RandomFaders == {i \in DOMAIN faderRandomModeActive : IsActive(faderRandomModeActive, i)}

\* -------------------------------------------------- APCMiniMK2Sequencer

\* initializeSequencePatterns()
SequencerInit ==
    sequencePatterns = [p \in 0..(GRID_COLS - 1) |-> [c \in 0..(GRID_ROWS - 1) |-> 0]]

\* a read with no bounds check
getSequenceValueUnchecked(patternIndex, columnIndex) ==
    IF patternIndex \in DOMAIN sequencePatterns
      THEN Get(sequencePatterns[patternIndex], columnIndex)
      ELSE Undefined

\* getSequenceValue(patternIndex, columnIndex)
getSequenceValue(patternIndex, columnIndex) ==
    IF patternIndex < 0 \/ patternIndex >= 8 \/ columnIndex < 0 \/ columnIndex >= GRID_COLS
      THEN 0
      ELSE sequencePatterns[patternIndex][columnIndex]

\* a grid range with no upper end
IsGridMsgUnbounded(m) ==
    /\ m[3] > 0
    /\ IsNote(m[1])
    /\ m[2] >= GRID_START

IsGridMsg(m) ==
    /\ m[3] > 0
    /\ IsNote(m[1])
    /\ m[2] >= GRID_START /\ m[2] <= GRID_END

\* a row counted from the top of the grid
padRowFromTop(midiNote) == midiNote \div GRID_COLS

padCol(midiNote) == midiNote % GRID_COLS
padRow(midiNote) == 7 - (midiNote \div GRID_COLS)

\* a grid write that lands in the pattern selected at the last update
patternsAfterAtTick(m, currentPatternIndex) ==
    IF IsGridMsg(m)
      THEN [sequencePatterns EXCEPT ![atTick.radio][padCol(m[2])] = padRow(m[2])]
      ELSE sequencePatterns

\* a grid write that lands in every pattern
patternsAfterAll(m, currentPatternIndex) ==
    IF IsGridMsg(m)
      THEN [p \in DOMAIN sequencePatterns |->
              [sequencePatterns[p] EXCEPT ![padCol(m[2])] = padRow(m[2])]]
      ELSE sequencePatterns

\* sequencePatterns once the Sequencer has handled m, currentPatternIndex the
\* pattern selected after the Manager handled it
patternsAfter(m, currentPatternIndex) ==
    IF IsGridMsg(m)
      THEN [sequencePatterns EXCEPT ![currentPatternIndex][padCol(m[2])] = padRow(m[2])]
      ELSE sequencePatterns

\* APCMiniMK2Sequencer.handleMIDIMessage(m), the onMidiMessageCallback
handleMIDIMessage(m) ==
    /\ ManagerHandle(m)
    /\ sequencePatterns' = patternsAfter(m, radioAfter(m))
    /\ sent' = <<>>
    /\ UNCHANGED <<midiSuccess, currentStep>>

\* a clear of every pattern
clearEveryPattern(patternIndex) ==
    /\ sequencePatterns' = [p \in DOMAIN sequencePatterns |->
                               [c \in DOMAIN sequencePatterns[p] |-> 0]]
    /\ sent' = <<>>
    /\ UNCHANGED <<faderValues, faderValuesPrev, faderButtonToggleState,
                   faderRandomModeActive, sideButtonToggleState, sideButtonRadioNum,
                   midiSuccess, currentStep>>

\* clearCurrentPattern()
clearCurrentPattern ==
    /\ sequencePatterns' =
          [sequencePatterns EXCEPT ![sideButtonRadioNum] = [c \in DOMAIN @ |-> 0]]
    /\ sent' = <<>>
    /\ UNCHANGED <<faderValues, faderValuesPrev, faderButtonToggleState,
                   faderRandomModeActive, sideButtonToggleState, sideButtonRadioNum,
                   midiSuccess, currentStep>>

\* clearPattern(patternIndex)
clearPattern(patternIndex) ==
    /\ sequencePatterns' =
          IF patternIndex >= 0 /\ patternIndex < 8
            THEN [sequencePatterns EXCEPT ![patternIndex] = [c \in DOMAIN @ |-> 0]]
            ELSE sequencePatterns
    /\ sent' = <<>>
    /\ UNCHANGED <<faderValues, faderValuesPrev, faderButtonToggleState,
                   faderRandomModeActive, sideButtonToggleState, sideButtonRadioNum,
                   midiSuccess, currentStep>>

\* an intensity wrapped into seven bits
wrapIntensity(intensity) == intensity % (MIDI_MAX + 1)

\* sendLEDMessage: Math.min(Math.max(Math.floor(intensity), 0), 127)
outIntensity(intensity) ==
    IF intensity < 0 THEN 0 ELSE IF intensity > MIDI_MAX THEN MIDI_MAX ELSE intensity

\* sendLEDMessage(midiNote, intensity): the message handed to sendMessage
sendLEDMessage(midiNote, intensity) ==
    LET isGrid == midiNote >= GRID_START /\ midiNote <= GRID_END
    IN IF isGrid THEN <<GRID_LED_STATUS, midiNote, outIntensity(intensity)>>
       ELSE <<NOTE_ON, midiNote, outIntensity(intensity)>>

\* a grid colour that marks only the running step
cellIntensityPlayheadFirst(row, col, activeRow, step, currentPatternIndex) ==
    IF col = step THEN APC_WHITE
    ELSE IF row = activeRow THEN PATTERN_COLORS[currentPatternIndex + 1]
    ELSE APC_OFF

\* sendSequencerLEDs: the colour of grid cell (row, col)
cellIntensity(row, col, activeRow, step, currentPatternIndex) ==
    IF row = activeRow /\ col = step THEN PATTERN_COLORS[currentPatternIndex + 1]
    ELSE IF row = activeRow THEN PATTERN_COLORS[currentPatternIndex + 1]
    ELSE IF col = step THEN APC_WHITE
    ELSE APC_OFF

\* indicators lit from the pattern-select flags
sideIntensityFromFlags(i) ==
    IF Truthy(sideButtonToggleState, i)
      THEN (IF PATTERN_COLORS[i + 1] + MAX_INTENSITY_OFFSET > MIDI_MAX THEN MIDI_MAX
            ELSE PATTERN_COLORS[i + 1] + MAX_INTENSITY_OFFSET)
      ELSE APC_OFF

\* sendSequencerLEDs: the colour of pattern-select indicator i
sideIntensity(i) ==
    IF sideButtonRadioNum = i
      THEN (IF PATTERN_COLORS[i + 1] + MAX_INTENSITY_OFFSET > MIDI_MAX THEN MIDI_MAX
            ELSE PATTERN_COLORS[i + 1] + MAX_INTENSITY_OFFSET)
      ELSE APC_OFF

\* sendSequencerLEDs: 1. the grid, column by column
gridLEDs(step) ==
    [k \in 1..(GRID_COLS * GRID_ROWS) |->
        LET col == (k - 1) \div GRID_ROWS
            row == (k - 1) % GRID_ROWS
        IN sendLEDMessage(col + (7 - row) * 8,
                          cellIntensity(row, col, sequencePatterns[sideButtonRadioNum][col],
                                        step, sideButtonRadioNum))]

\* sendSequencerLEDs: 2. the pattern-select buttons
sideLEDs == [k \in 1..8 |-> sendLEDMessage(SIDE_BUTTONS_START + (k - 1), sideIntensity(k - 1))]

\* sendSequencerLEDs: 3. the fader buttons, forEach over the toggle array
faderLEDs ==
    LET idx == Ascending(DOMAIN faderButtonToggleState)
    IN [k \in 1..Len(idx) |->
          sendLEDMessage(IF idx[k] < 8 THEN FADER_BUTTONS_START + idx[k] ELSE FADER_BUTTON_8,
                         IF Truthy(faderButtonToggleState, idx[k])
                           THEN APC_WHITE + MAX_INTENSITY_OFFSET ELSE APC_OFF)]

\* a frame sent whether the output is open or not
sendSequencerLEDsAlways(step) == gridLEDs(step) \o sideLEDs \o faderLEDs

\* the messages sendSequencerLEDs(step) sends
sendSequencerLEDs(step) ==
    IF ~midiSuccess THEN <<>> ELSE gridLEDs(step) \o sideLEDs \o faderLEDs

\* APCMiniMK2Sequencer.update(columnIndex)
sequencerUpdate(columnIndex, pulse) ==
    /\ faderValues' = faderValuesAfterUpdate(pulse)
    /\ currentStep' = columnIndex
    /\ sent' = sendSequencerLEDs(columnIndex)
    /\ UNCHANGED <<faderValuesPrev, faderButtonToggleState, faderRandomModeActive,
                   sideButtonToggleState, sideButtonRadioNum, sequencePatterns,
                   midiSuccess>>

\* MIDIManager: the MIDI output opens or is lost
transportChange ==
    /\ midiSuccess' = ~midiSuccess
    /\ sent' = <<>>
    /\ UNCHANGED <<deviceVars, currentStep>>

\* the step a beat position selects: floor(getBeat()) % 8
stepOf(beat) ==
    LET s == NumMod(NumFloor(beat), Num(GRID_COLS))
    IN IF IsFin(s) /\ s[2] = 1 THEN s[1] ELSE s

\* a clear fader that fires on every frame it is at the top
clearFaderHigh(values) == Get(values, 8) >= MIDI_MAX

\* the clear fader (the ninth) reached the top since the last frame
clearFaderRose(values) == Get(values, 8) >= MIDI_MAX /\ prevClearFaderValue < MIDI_MAX

\* a frame of the host whose renderers read the grid before the clear fader
\* is looked at
sceneUpdateRenderFirst(t, pulse) ==
    /\ update(t)
    /\ currentStep' = stepOf(getBeat')
    /\ faderValues' = faderValuesAfterUpdate(pulse)
    /\ sent' = sendSequencerLEDs(currentStep')
    /\ sequencePatterns' =
          IF clearFaderRose(faderValues')
            THEN [sequencePatterns EXCEPT ![sideButtonRadioNum] = [c \in DOMAIN @ |-> 0]]
            ELSE sequencePatterns
    /\ prevClearFaderValue' = Get(faderValues', 8)
    /\ rendered' = [p \in 0..7 |-> sequencePatterns[p][currentStep']]
    /\ UNCHANGED <<faderValuesPrev, faderButtonToggleState, faderRandomModeActive,
                   sideButtonToggleState, sideButtonRadioNum, midiSuccess>>

\* SceneManager.update() when performance.now() returns t: the clock, the
\* step, the sequencer's update with its frame, the clear fader, the renderers
sceneUpdate(t, pulse) ==
    /\ update(t)
    /\ currentStep' = stepOf(getBeat')
    /\ faderValues' = faderValuesAfterUpdate(pulse)
    /\ sent' = sendSequencerLEDs(currentStep')
    /\ sequencePatterns' =
          IF clearFaderRose(faderValues')
            THEN [sequencePatterns EXCEPT ![sideButtonRadioNum] = [c \in DOMAIN @ |-> 0]]
            ELSE sequencePatterns
    /\ prevClearFaderValue' = Get(faderValues', 8)
    /\ rendered' = [p \in 0..7 |-> getSequenceValue(p, currentStep)']
    /\ UNCHANGED <<faderValuesPrev, faderButtonToggleState, faderRandomModeActive,
                   sideButtonToggleState, sideButtonRadioNum, midiSuccess>>

\* the device state, as one record
deviceState ==
    [faderValues |-> faderValues, faderValuesPrev |-> faderValuesPrev,
     faderButtonToggleState |-> faderButtonToggleState,
     faderRandomModeActive |-> faderRandomModeActive,
     sideButtonToggleState |-> sideButtonToggleState,
     sideButtonRadioNum |-> sideButtonRadioNum,
     sequencePatterns |-> sequencePatterns]

\* MIDIManager: the MIDI output is not open yet at construction
TransportInit == midiSuccess = FALSE

MIDIInit ==
    /\ ManagerInit
    /\ SequencerInit
    /\ TransportInit
    /\ currentStep = 0
    /\ sent = <<>>
    /\ batch = <<>>
    /\ atTick = [grid |-> [p \in 0..7 |-> [c \in 0..7 |-> 0]], radio |-> 0]
    /\ lastOp = <<>>
    /\ before = deviceState
    /\ prevClearFaderValue = 0
    /\ rendered = <<>>

\* ---------------------------------------------------------------- inputs

\* tempos a caller asks for
ValidBPMs == {Num(60), Num(120), Num(240)}
\* requests the clock has to refuse
InvalidBPMs == {Num(0), Num(-60)}

LaterTimes == {t \in Times : t >= now}

Update == \E t \in LaterTimes :
            /\ NumGeq(beatCount, Num(-MaxBackBeats)) \/ ~IsFin(beatCount)
            /\ update(t)
            /\ UNCHANGED midiVars
SetBPM == \E x \in ValidBPMs : setBPM(x) /\ UNCHANGED midiVars
SetInvalidBPM == \E x \in InvalidBPMs : setBPM(x) /\ UNCHANGED midiVars
Start == \E t \in LaterTimes : start(t) /\ UNCHANGED midiVars
Stop == stop /\ UNCHANGED midiVars
\* taps land on every other time step
TapTimesLater == {t \in LaterTimes : t % (2 * TimeStep) = 0}
TapTempo == \E t \in TapTimesLater : tapTempo(t) /\ UNCHANGED midiVars

\* updates of the runs at a constant tempo
SteadyTimes == {k * TimeStep : k \in 0..MaxSteadyTicks}
UpdateSteady == \E t \in {u \in SteadyTimes : u >= now} :
                  update(t) /\ UNCHANGED midiVars

\* the pauses between a tap and the one before it: a quarter of the timeout,
\* the timeout itself (2000 ms) and a quarter more than the timeout (2500 ms)
TapGaps == {TAP_TIMEOUT \div 4, TAP_TIMEOUT, TAP_TIMEOUT + TAP_TIMEOUT \div 4}
TapAfterGap == \E g \in TapGaps :
                 /\ now + g <= MaxTapTicks * TimeStep
                 /\ tapTempo(now + g)
                 /\ UNCHANGED midiVars

\* a tap whose time is recorded in the batch, the log of all taps made
TapLogged == \E g \in TapGaps :
               /\ now + g <= MaxTapTicks * TimeStep
               /\ tapTempo(now + g)
               /\ batch' = Append(batch, now + g)
               /\ UNCHANGED <<deviceVars, midiSuccess, currentStep, sent,
                              atTick, lastOp, before, sceneVars>>

\* the messages of the indicator runs: a pad, a pattern-select button, the
\* first and the ninth fader button
PanelMsgs == {<<NOTE_ON, 19, 127>>, <<NOTE_ON, 114, 127>>,
              <<NOTE_ON, 100, 127>>, <<NOTE_ON, 122, 127>>}
\* the steps the host hands to the update in the indicator runs
PanelSteps == {3}

HandlePanelMsg == \E m \in PanelMsgs :
                    /\ handleMIDIMessage(m)
                    /\ lastOp' = m
                    /\ UNCHANGED <<clockVars, sceneVars, batch, atTick, before>>
PanelUpdate == \E step \in PanelSteps : \E pulse \in [RandomFaders -> Pulses] :
                 /\ sequencerUpdate(step, pulse)
                 /\ lastOp' = <<"update">>
                 /\ UNCHANGED <<clockVars, sceneVars, batch, atTick, before>>
PanelTransportChange == /\ transportChange
                        /\ lastOp' = <<"transportChange">>
                        /\ UNCHANGED <<clockVars, sceneVars, batch, atTick, before>>

\* the messages the control surface sends in the sequencer runs: pad 19 is
\* (step 3, row 5), pad 44 (step 4, row 2), pad 59 (step 3, row 0)
SeqMsgs == {<<NOTE_ON, 19, 127>>, <<NOTE_ON, 44, 127>>, <<NOTE_ON, 59, 127>>,
            <<NOTE_OFF, 19, 0>>,
            <<NOTE_ON, 114, 127>>, <<NOTE_ON, 112, 127>>,
            <<NOTE_ON, 115, 0>>, <<NOTE_OFF, 115, 127>>}

Steps == 0..7

HandleSeqMsg == \E m \in SeqMsgs :
                  /\ handleMIDIMessage(m)
                  /\ UNCHANGED <<clockVars, sceneVars, historyVars>>
SeqUpdate == \E step \in Steps : \E pulse \in [RandomFaders -> Pulses] :
               /\ sequencerUpdate(step, pulse)
               /\ UNCHANGED <<clockVars, sceneVars, historyVars>>
TransportChange == transportChange /\ UNCHANGED <<clockVars, sceneVars, historyVars>>

\* the messages of the arrival-order runs: two pattern-select presses, two pads
OrderMsgs == {<<NOTE_ON, 114, 127>>, <<NOTE_ON, 112, 127>>,
              <<NOTE_ON, 19, 127>>, <<NOTE_ON, 44, 127>>}

\* a message arrives between two updates and is recorded in the batch
HandleOrderMsg == \E m \in OrderMsgs :
                    /\ Len(batch) < MaxBatch
                    /\ handleMIDIMessage(m)
                    /\ batch' = Append(batch, m)
                    /\ UNCHANGED <<clockVars, sceneVars, atTick, lastOp, before>>
\* an update ends the batch
OrderUpdate == \E step \in Steps : \E pulse \in [RandomFaders -> Pulses] :
                 /\ sequencerUpdate(step, pulse)
                 /\ batch' = <<>>
                 /\ atTick' = [grid |-> sequencePatterns, radio |-> sideButtonRadioNum]
                 /\ UNCHANGED <<clockVars, sceneVars, lastOp, before>>

\* the messages of the fader runs: fader 0 moved, its button pressed and
\* released (with a release value of 0 or not), the ninth fader and its button,
\* a pad, a pattern-select button pressed and released, and messages of no
\* range: a scene-launch note, a note past the grid, continuous changes either
\* side of the fader range
FaderMsgs == {<<CONTROL_CHANGE, 48, 64>>, <<CONTROL_CHANGE, 48, 127>>,
              <<NOTE_ON, 100, 127>>, <<NOTE_OFF, 100, 0>>, <<NOTE_OFF, 100, 64>>,
              <<CONTROL_CHANGE, 56, 127>>, <<NOTE_ON, 122, 127>>,
              <<NOTE_ON, 19, 127>>,
              <<NOTE_ON, 114, 127>>, <<NOTE_OFF, 114, 127>>,
              <<NOTE_ON, 82, 127>>, <<NOTE_ON, 64, 127>>,
              <<CONTROL_CHANGE, 47, 127>>, <<CONTROL_CHANGE, 57, 127>>}

HandleFaderMsg == \E m \in FaderMsgs :
                    /\ handleMIDIMessage(m)
                    /\ lastOp' = m
                    /\ before' = deviceState
                    /\ UNCHANGED <<clockVars, sceneVars, batch, atTick>>
\* the clock stands at beat 0, so the host hands step 0 to the update
FaderUpdate == \E pulse \in [RandomFaders -> Pulses] :
                 /\ sequencerUpdate(0, pulse)
                 /\ lastOp' = <<"update">>
                 /\ before' = deviceState
                 /\ UNCHANGED <<clockVars, sceneVars, batch, atTick>>

\* the messages of the clearing runs: three pads (pad 7 is step 7, row 7), a
\* note past the grid and two pattern-select presses
ClearMsgs == {<<NOTE_ON, 19, 127>>, <<NOTE_ON, 44, 127>>, <<NOTE_ON, 7, 127>>,
              <<NOTE_ON, 64, 127>>,
              <<NOTE_ON, 114, 127>>, <<NOTE_ON, 112, 127>>}
\* the pattern indices a caller hands to clearPattern
ClearIndices == {-1, 0, 2, 7, 8, 99}

HandleClearMsg == \E m \in ClearMsgs :
                    /\ handleMIDIMessage(m)
                    /\ lastOp' = m
                    /\ before' = deviceState
                    /\ UNCHANGED <<clockVars, sceneVars, batch, atTick>>
ClearCurrentPattern == /\ clearCurrentPattern
                       /\ lastOp' = <<"clearCurrentPattern">>
                       /\ before' = deviceState
                       /\ UNCHANGED <<clockVars, sceneVars, batch, atTick>>
ClearPattern == \E p \in ClearIndices :
                  /\ clearPattern(p)
                  /\ lastOp' = <<"clearPattern", p>>
                  /\ before' = deviceState
                  /\ UNCHANGED <<clockVars, sceneVars, batch, atTick>>

\* the frames of the host: the times of its updates, and the messages that
\* arrive between them (the clear fader at the top and half way, the pad of
\* step 0 and row 5, a pattern-select button)
SceneTimes == {k * TimeStep : k \in 0..MaxSceneTicks}
SceneMsgs == {<<CONTROL_CHANGE, FADERS_START + 8, 127>>,
              <<CONTROL_CHANGE, FADERS_START + 8, 64>>,
              <<NOTE_ON, 16, 127>>, <<NOTE_ON, 113, 127>>}

SceneUpdate == \E t \in {u \in SceneTimes : u >= now} :
               \E pulse \in [RandomFaders -> Pulses] :
                 /\ sceneUpdate(t, pulse)
                 /\ lastOp' = <<"update">>
                 /\ before' = deviceState
                 /\ UNCHANGED <<batch, atTick>>
HandleSceneMsg == \E m \in SceneMsgs :
                    /\ handleMIDIMessage(m)
                    /\ lastOp' = m
                    /\ UNCHANGED <<clockVars, sceneVars, batch, atTick, before>>
SceneSetBPM == \E x \in {Num(240)} :
                 /\ setBPM(x)
                 /\ lastOp' = <<"setBPM", x>>
                 /\ UNCHANGED <<deviceVars, midiSuccess, currentStep, sent, sceneVars,
                                batch, atTick, before>>
SceneTransportChange == /\ transportChange
                        /\ lastOp' = <<"transportChange">>
                        /\ UNCHANGED <<clockVars, sceneVars, batch, atTick, before>>

\* the draw loop's next update: performance.now() has moved on
UpdateLater == \E t \in {u \in Times : u > now} : update(t) /\ UNCHANGED midiVars
\* a tempo request made while the run has the slowest tempo's beat left
SlowestInterval == MS_PER_MINUTE \div 60
SetBPMEarly == /\ now + SlowestInterval <= MaxTicks * TimeStep
               /\ SetBPM

\* a tempo request, remembered in the batch until a beat boundary is crossed
RequestBPM == \E x \in ValidBPMs :
                /\ setBPM(x)
                /\ batch' = <<x>>
                /\ UNCHANGED <<deviceVars, midiSuccess, currentStep, sent,
                               atTick, lastOp, before, sceneVars>>
RequestUpdate == \E t \in LaterTimes :
                   /\ update(t)
                   /\ batch' = IF isPlaying /\ NumGeq(NumAdd(elapsed, Num(t - lastUpdateTime)),
                                                      interval)
                                THEN <<>> ELSE batch
                   /\ UNCHANGED <<deviceVars, midiSuccess, currentStep, sent,
                                  atTick, lastOp, before, sceneVars>>

Init == BPMInit /\ MIDIInit

NextClock == Update \/ SetBPM \/ Start \/ Stop
SpecClock == Init /\ [][NextClock]_vars

NextInvalid == Update \/ SetBPM \/ SetInvalidBPM
SpecInvalidBPM == Init /\ [][NextInvalid]_vars

NextTap == Update \/ TapTempo
SpecTap == Init /\ [][NextTap]_vars

NextSeq == HandleSeqMsg \/ SeqUpdate \/ TransportChange
SpecSeq == Init /\ [][NextSeq]_vars

NextOrder == HandleOrderMsg \/ OrderUpdate
SpecOrder == Init /\ [][NextOrder]_vars

NextTapGap == TapAfterGap \/ SetBPM \/ Update
SpecTapGap == Init /\ [][NextTapGap]_vars

\* a manager constructed with any of the tempos and only updated
InitSteady == (\E initialBPM \in ValidBPMs : BPMInitWith(initialBPM)) /\ MIDIInit
NextSteady == UpdateSteady
SpecSteady == InitSteady /\ [][NextSteady]_vars

NextTapLog == TapLogged \/ SetBPM
SpecTapLog == Init /\ [][NextTapLog]_vars

NextPanel == HandlePanelMsg \/ PanelUpdate \/ PanelTransportChange
SpecPanel == Init /\ [][NextPanel]_vars

NextFader == HandleFaderMsg \/ FaderUpdate
SpecFader == Init /\ [][NextFader]_vars

NextClear == HandleClearMsg \/ ClearCurrentPattern \/ ClearPattern
SpecClear == Init /\ [][NextClear]_vars

\* tempo requests and updates, with the batch holding the tempo asked for
\* last since the last beat boundary
NextRequest == RequestBPM \/ RequestUpdate
SpecRequest == Init /\ [][NextRequest]_vars

\* the clock under a draw loop that keeps calling update() as time passes:
\* as long as the run has time left, a later update happens
NextLive == UpdateLater \/ SetBPMEarly \/ Stop
SpecLive == Init /\ [][NextLive]_vars /\ WF_vars(UpdateLater)

\* the host's frames, with the messages and tempo requests between them
NextScene == SceneUpdate \/ HandleSceneMsg \/ SceneSetBPM \/ SceneTransportChange
SpecScene == Init /\ [][NextScene]_vars

\* ------------------------------------------------------- claims: the clock

Positive(a) == ~IsNaN(a) /\ a[1] > 0
FinitePositive(a) == IsFin(a) /\ a[1] > 0

\* an update step that crossed a beat boundary
CrossedBoundary == isPlaying /\ lastUpdateTime' >= lastUpdateTime /\ beatCount' # beatCount

\* C1: while the clock is running, beat() after every call (update, setBPM,
\* start, stop; timestamps never decrease) is >= beat() before it.
C1_BeatNeverDecreases ==
    [][(isPlaying /\ isPlaying') => NumGeq(getBeat', getBeat)]_vars

\* C2: setBPM(x) changes neither getBeat(), getBPM() nor the interval: it only
\* stages x (an x other than the tempo in force).  Tempo and interval change on
\* no step but an update that crosses a beat boundary with a tempo staged; that
\* update installs the staged tempo x and the interval 60000/x, and every
\* update that crosses no boundary moves getBeat() by delta over the interval
\* in force, which is 60000/getBPM().
C2_TempoChangeDeferred ==
    /\ [](interval = NumDiv(Num(MS_PER_MINUTE), getBPM))
    /\ [][/\ \A x \in ValidBPMs :
               setBPM(x) =>
                   /\ getBeat' = getBeat
                   /\ getBPM' = getBPM
                   /\ interval' = interval
                   /\ NumNeq(x, getBPM) => pendingBPM' = x
          /\ (getBPM' # getBPM \/ interval' # interval) =>
                   /\ CrossedBoundary
                   /\ pendingBPM # Null
                   /\ getBPM' = pendingBPM
                   /\ interval' = NumDiv(Num(MS_PER_MINUTE), pendingBPM)
          /\ (CrossedBoundary /\ pendingBPM # Null) =>
                   /\ getBPM' = pendingBPM
                   /\ interval' = NumDiv(Num(MS_PER_MINUTE), pendingBPM)
                   /\ pendingBPM' = Null
          /\ (isPlaying /\ isPlaying' /\ beatCount' = beatCount) =>
                   getBeat' = NumAdd(getBeat,
                                     NumDiv(Num(lastUpdateTime' - lastUpdateTime), interval))
         ]_vars

\* C2 witness: a staged tempo was committed at a boundary (60 is in force) and
\* another one (240) is staged mid-beat, the interval still that of 60.
C2_Witness ==
    /\ isPlaying
    /\ getBPM = Num(60)
    /\ interval = Num(1000)
    /\ pendingBPM = Num(240)
    /\ NumLt(Num(0), elapsed) /\ NumLt(elapsed, interval)

\* C3: a tempo <= 0 is rejected: none is ever staged or in force, and the
\* interval in force is positive.
C3_NonPositiveBPMRejected ==
    /\ pendingBPM # Null => Positive(pendingBPM)
    /\ Positive(getBPM)
    /\ Positive(interval)

\* C4: a tap sequence with a mean inter-tap interval of zero is rejected: the
\* tempo staged or in force is a finite positive number and so is the interval.
C4_ZeroTapIntervalRejected ==
    /\ pendingBPM # Null => FinitePositive(pendingBPM)
    /\ FinitePositive(getBPM)
    /\ FinitePositive(interval)

\* ------------------------------------------- claims: the control surface

\* the pad of grid cell (row, col): row-major from the top, row 0 at the bottom
PadOf(row, col) == col + (7 - row) * 8

\* the brightness values the last frame sent to a channel
SentTo(midiNote) == {sent[k][3] : k \in {j \in 1..Len(sent) : sent[j][2] = midiNote}}

IsPadDown(m) == m[1] = NOTE_ON /\ m[3] > 0 /\ m[2] \in 0..63
IsSelectDown(m) == m[1] = NOTE_ON /\ m[3] > 0 /\ m[2] \in 112..119

\* C5: a pad press (step s, row r) while pattern p is selected sets
\* getSequenceValue(p, s) to r and changes no other cell of any pattern (pad 19
\* is step 3, row 5); a pattern-select press changes no cell.
C5_GridWriteLocal ==
    [][\A m \in SeqMsgs : handleMIDIMessage(m) =>
          /\ IsPadDown(m) =>
               \A p \in 0..7, s \in 0..7 :
                  getSequenceValue(p, s)' =
                     IF p = sideButtonRadioNum /\ s = padCol(m[2])
                       THEN padRow(m[2]) ELSE getSequenceValue(p, s)
          /\ m = <<NOTE_ON, 19, 127>> => getSequenceValue(sideButtonRadioNum, 3)' = 5
          /\ IsSelectDown(m) =>
               \A p \in 0..7, s \in 0..7 :
                  getSequenceValue(p, s)' = getSequenceValue(p, s)
      ]_vars

\* C5 witness: (step 3, row 5) was written while pattern 2 was selected, pattern
\* 0 is selected now, and the cell is still there while pattern 0's is untouched.
C5_Witness ==
    /\ sideButtonRadioNum = 0
    /\ sideButtonToggleState[0] = 1
    /\ getSequenceValue(2, 3) = 5
    /\ getSequenceValue(0, 3) = 0

\* C6: messages take effect in arrival order.  When a pattern-select press for
\* q and a pad press are the two messages between two updates, the pad's write
\* lands in q if the select came first, and in the pattern selected at the last
\* update if the pad came first.
C6_ArrivalOrder ==
    \A q \in {0, 2}, n \in {19, 44} :
       LET sel == <<NOTE_ON, SIDE_BUTTONS_START + q, 127>>
           pad == <<NOTE_ON, n, 127>>
       IN /\ batch = <<sel, pad>> =>
               /\ sequencePatterns = [atTick.grid EXCEPT ![q][n % 8] = 7 - (n \div 8)]
               /\ sideButtonRadioNum = q
          /\ batch = <<pad, sel>> =>
               /\ sequencePatterns =
                     [atTick.grid EXCEPT ![atTick.radio][n % 8] = 7 - (n \div 8)]
               /\ sideButtonRadioNum = q

\* C6 witness: pattern 0 was selected at the last update; then select 2 and
\* pad 19 arrived in this order and the write is in pattern 2.
C6_Witness ==
    /\ batch = <<<<NOTE_ON, 114, 127>>, <<NOTE_ON, 19, 127>>>>
    /\ atTick.radio = 0
    /\ sequencePatterns[2][3] = 5
    /\ sequencePatterns[0][3] = 0

\* the rule of the feedback priority that cell (row, col) falls under
Tier(row, col) ==
    LET configured == sequencePatterns[sideButtonRadioNum][col]
    IN IF row = configured /\ col = currentStep THEN "active"
       ELSE IF row = configured THEN "configured"
       ELSE IF col = currentStep THEN "playhead"
       ELSE "off"

\* the colour of a tier for pattern p
TierColor(tier, p) ==
    IF tier = "active" THEN PATTERN_COLORS[p + 1]
    ELSE IF tier = "configured" THEN PATTERN_COLORS[p + 1]
    ELSE IF tier = "playhead" THEN APC_WHITE
    ELSE APC_OFF

\* C7: in every frame each grid cell carries the colour of the first rule it
\* matches: configured row in the currentStep column (active), configured row,
\* currentStep column (playhead), off.
C7_FeedbackPriority ==
    sent # <<>> =>
       \A row \in 0..7, col \in 0..7 :
          SentTo(PadOf(row, col)) = {TierColor(Tier(row, col), sideButtonRadioNum)}

\* C7 witness: a frame for currentStep 3 with row 5 configured at step 3 and
\* row 2 at step 4 of the selected pattern 2.
C7_Witness ==
    /\ sent # <<>>
    /\ currentStep = 3
    /\ sideButtonRadioNum = 2
    /\ sequencePatterns[2][3] = 5
    /\ sequencePatterns[2][4] = 2

\* C8: the active cell (configured row, currentStep column) carries a colour
\* other than the one of the configured-row cells of the other columns.
C8_ActiveColourDistinct ==
    sent # <<>> /\ currentStep \in 0..7 =>
       \A col \in 0..7 \ {currentStep} :
          SentTo(PadOf(sequencePatterns[sideButtonRadioNum][currentStep], currentStep))
             # SentTo(PadOf(sequencePatterns[sideButtonRadioNum][col], col))

\* C9: every message sent carries a value in 0..127; sendLEDMessage sends a
\* value above 127 as 127 and one below 0 as 0, whatever the channel; the
\* selected pattern's indicator, base + offset above 127, is sent as 127.
C9_BrightnessClamped ==
    /\ \A k \in 1..Len(sent) : sent[k][3] \in 0..MIDI_MAX
    /\ \A note \in {0, 63, 100, 112, 122}, x \in (-MIDI_MAX)..(2 * MIDI_MAX + 1) :
          sendLEDMessage(note, x)[3] =
             IF x > MIDI_MAX THEN MIDI_MAX ELSE IF x < 0 THEN 0 ELSE x
    /\ sent # <<>> =>
          SentTo(SIDE_BUTTONS_START + sideButtonRadioNum) =
             {IF PATTERN_COLORS[sideButtonRadioNum + 1] + MAX_INTENSITY_OFFSET > MIDI_MAX
                THEN MIDI_MAX
                ELSE PATTERN_COLORS[sideButtonRadioNum + 1] + MAX_INTENSITY_OFFSET}

\* C9 witness: a frame whose indicator of the selected pattern 2 (56 + 124) was
\* sent as 127.
C9_Witness ==
    /\ sent # <<>>
    /\ sideButtonRadioNum = 2
    /\ PATTERN_COLORS[3] + MAX_INTENSITY_OFFSET > MIDI_MAX
    /\ \E k \in 1..Len(sent) : sent[k] = <<NOTE_ON, 114, MIDI_MAX>>

\* the pattern-select flags that are set
SelectFlags == {i \in DOMAIN sideButtonToggleState : sideButtonToggleState[i] = 1}

\* C10 as stated: sideButtonRadioNum is in 0..7 and exactly one pattern-select
\* flag is set, the one at index sideButtonRadioNum, in every reachable state.
C10_ExactlyOneSelectFlag ==
    /\ sideButtonRadioNum \in 0..7
    /\ SelectFlags = {sideButtonRadioNum}

\* C10 amended: sideButtonRadioNum is in 0..7 and no flag but the one at index
\* sideButtonRadioNum is set; a button-down on 112+k sets sideButtonRadioNum to
\* k and leaves flag k the only one set; and once the flag of the selected
\* pattern is set, exactly one flag stays set (none is at startup).
C10_SelectFlagsFollowRadio ==
    /\ [](sideButtonRadioNum \in 0..7 /\ SelectFlags \subseteq {sideButtonRadioNum})
    /\ [][\A m \in SeqMsgs : (handleMIDIMessage(m) /\ IsSelectDown(m)) =>
             /\ sideButtonRadioNum' = m[2] - 112
             /\ SelectFlags' = {m[2] - 112}]_vars
    /\ [][SelectFlags # {} => SelectFlags' = {sideButtonRadioNum'}]_vars

\* C10 witness: pattern 2 was selected and then pattern 0, whose flag is the
\* only one set.
C10_Witness ==
    /\ sideButtonRadioNum = 0
    /\ SelectFlags = {0}
    /\ sequencePatterns[2][3] = 5

\* ------------------------------------------------------ claims: the faders

Faders == 0..8
IsUpdate == lastOp' = <<"update">>

\* C11: after every message and every update, each fader i in 0..8 that is not
\* in random mode shows the last raw reading for i (0 before any reading):
\* faderValuesPrev[i] is that reading, written by a continuous-change message
\* for i and by nothing else, and a toggle out of random mode shows it at once.
C11_UntoggledFaderIsRaw ==
    /\ [](\A i \in Faders :
            ~IsActive(faderRandomModeActive, i) =>
                Get(faderValues, i) = Get(faderValuesPrev, i))
    /\ [][\A m \in FaderMsgs : handleMIDIMessage(m) =>
            \A i \in Faders :
                Get(faderValuesPrev, i)' =
                    IF m[1] = CONTROL_CHANGE /\ m[2] = FADERS_START + i
                      THEN m[3] ELSE Get(faderValuesPrev, i)]_vars
    /\ [][IsUpdate => faderValuesPrev' = faderValuesPrev]_vars
    /\ [][\A i \in Faders :
            (IsActive(faderRandomModeActive, i) /\ ~IsActive(faderRandomModeActive, i)')
                => Get(faderValues, i)' = Get(faderValuesPrev, i)]_vars

\* C11 witness: fader 0 was read at 64 while in random mode, where it showed
\* another value, and the button press that ended random mode shows 64.
C11_Witness ==
    /\ lastOp = <<NOTE_ON, 100, 127>>
    /\ IsActive(before.faderRandomModeActive, 0)
    /\ before.faderValuesPrev[0] = 64
    /\ before.faderValues[0] # 64
    /\ ~IsActive(faderRandomModeActive, 0)
    /\ faderValues[0] = 64

\* C12: a continuous-change message for a fader in random mode leaves its
\* faderValues entry as it was and stores the reading in faderValuesPrev.
C12_ReadingHeldBack ==
    [][\A m \in FaderMsgs :
         (/\ handleMIDIMessage(m)
          /\ m[1] = CONTROL_CHANGE /\ m[2] - FADERS_START \in Faders
          /\ IsActive(faderRandomModeActive, m[2] - FADERS_START))
         => /\ faderValues'[m[2] - FADERS_START] = faderValues[m[2] - FADERS_START]
            /\ faderValuesPrev'[m[2] - FADERS_START] = m[3]]_vars

\* C12 witness: fader 0 is in random mode and was just read at 64, which it
\* does not show.
C12_Witness ==
    /\ lastOp = <<CONTROL_CHANGE, 48, 64>>
    /\ IsActive(faderRandomModeActive, 0)
    /\ faderValuesPrev[0] = 64
    /\ faderValues[0] # 64

\* C13 as stated: a fader in random mode shows 0 or 1, from the toggle on.
C13_ToggledFaderIsPulse ==
    \A i \in Faders :
        IsActive(faderRandomModeActive, i) => Get(faderValues, i) \in {0, MIDI_MAX}

\* C13 amended: the toggle into random mode leaves the value shown as it was;
\* while the fader stays in random mode no message changes the value, an
\* update keeps it or sets it to 0 or 1, and once 0 or 1 it stays 0 or 1.
C13_ToggledFaderHoldsUntilPulse ==
    /\ [][\A i \in Faders :
            (~IsActive(faderRandomModeActive, i) /\ IsActive(faderRandomModeActive, i)')
                => Get(faderValues, i)' = Get(faderValues, i)]_vars
    /\ [][\A i \in Faders :
            (IsActive(faderRandomModeActive, i) /\ IsActive(faderRandomModeActive, i)')
                => /\ Get(faderValues, i)' \in {Get(faderValues, i), 0, MIDI_MAX}
                   /\ ~IsUpdate => Get(faderValues, i)' = Get(faderValues, i)]_vars

\* C13 witness: fader 0 is in random mode, an update has run, and it still
\* shows the raw reading 64 it showed at the toggle.
C13_Witness ==
    /\ lastOp = <<"update">>
    /\ IsActive(before.faderRandomModeActive, 0)
    /\ IsActive(faderRandomModeActive, 0)
    /\ faderValues[0] = 64

Flipped(arr, arrNext, i) == Get(arrNext, i) = 1 - Get(arr, i)

\* C14: a press (note-on, value > 0) of fader button 100+k, k in 0..7, flips
\* faderButtonToggleState[k], a press of the ninth fader button (122) flips
\* faderButtonToggleState[8], and the toggles, the random-mode flags and the
\* fader values never hold an index outside 0..8.
C14_NinthButtonTogglesIndex8 ==
    /\ [](/\ DOMAIN faderButtonToggleState \subseteq Faders
          /\ DOMAIN faderRandomModeActive \subseteq Faders
          /\ DOMAIN faderValues \subseteq Faders)
    /\ [][\A m \in FaderMsgs :
            (handleMIDIMessage(m) /\ m[1] = NOTE_ON /\ m[3] > 0) =>
                /\ m[2] \in FADER_BUTTONS_START..FADER_BUTTONS_END =>
                      Flipped(faderButtonToggleState, faderButtonToggleState',
                              m[2] - FADER_BUTTONS_START)
                /\ m[2] = FADER_BUTTON_8 =>
                      Flipped(faderButtonToggleState, faderButtonToggleState', 8)]_vars

ToggleFlags == <<faderButtonToggleState, faderRandomModeActive>>
Selection == <<sideButtonToggleState, sideButtonRadioNum>>
IsButtonUp(m) == m[1] = NOTE_OFF \/ (m[1] = NOTE_ON /\ m[3] = 0)

\* C15 as stated: a press of a fader button flips its toggle once, and a
\* release (note-off of any value, or note-on of value 0) changes no toggle
\* flag and not the pattern selected, so that press and release together flip
\* the toggle exactly once.
C15_ReleaseChangesNoToggle ==
    /\ [][\A m \in FaderMsgs :
            (/\ handleMIDIMessage(m) /\ m[1] = NOTE_ON /\ m[3] > 0
             /\ m[2] \in FADER_BUTTONS_START..FADER_BUTTONS_END)
            => Flipped(faderButtonToggleState, faderButtonToggleState',
                       m[2] - FADER_BUTTONS_START)]_vars
    /\ [][\A m \in FaderMsgs :
            (handleMIDIMessage(m) /\ IsButtonUp(m))
            => (ToggleFlags' = ToggleFlags /\ Selection' = Selection)]_vars

\* C15 amended: a note of a fader button 100+k, note-on or note-off, flips
\* toggle k if its value is above 0 and leaves it if the value is 0; a release
\* of value 0 changes no toggle flag, and no release changes the pattern
\* selected.  So press and release flip the toggle once if the release value
\* is 0, and twice (back to where it was) if it is not.
C15_ReleaseWithValueFlipsBack ==
    /\ [][\A m \in FaderMsgs :
            (/\ handleMIDIMessage(m) /\ IsNote(m[1])
             /\ m[2] \in FADER_BUTTONS_START..FADER_BUTTONS_END)
            => IF m[3] > 0
                 THEN Flipped(faderButtonToggleState, faderButtonToggleState',
                              m[2] - FADER_BUTTONS_START)
                 ELSE ToggleFlags' = ToggleFlags]_vars
    /\ [][\A m \in FaderMsgs :
            (handleMIDIMessage(m) /\ IsButtonUp(m))
            => /\ Selection' = Selection
               /\ m[3] = 0 => ToggleFlags' = ToggleFlags]_vars

\* C15 witness: fader button 0 was down (toggle 1) and its release with value
\* 64 has put the toggle back to 0.
C15_Witness ==
    /\ lastOp = <<NOTE_OFF, 100, 64>>
    /\ before.faderButtonToggleState[0] = 1
    /\ faderButtonToggleState[0] = 0

\* a message whose data1 is in no range of its kind
OutOfEveryRange(m) ==
    \/ /\ IsNote(m[1])
       /\ m[2] \notin (GRID_START..GRID_END) \cup (FADER_BUTTONS_START..FADER_BUTTONS_END)
                       \cup (SIDE_BUTTONS_START..SIDE_BUTTONS_END) \cup {FADER_BUTTON_8}
    \/ /\ m[1] = CONTROL_CHANGE
       /\ m[2] \notin FADERS_START..FADERS_END

\* C16: a message out of every range (a note other than 0..63, 100..107,
\* 112..119, 122; a continuous change outside 48..56) changes nothing: grid,
\* pattern selected, toggle flags, fader values and remembered readings stay.
C16_UnknownMessageDropped ==
    [][\A m \in FaderMsgs :
         (handleMIDIMessage(m) /\ OutOfEveryRange(m)) => deviceState' = deviceState]_vars

\* C16 witness: the continuous change 57 was handled with fader 0 read at 64,
\* fader button 0 down and step 3 of pattern 2 written.
C16_Witness ==
    /\ lastOp = <<CONTROL_CHANGE, 57, 127>>
    /\ faderValuesPrev[0] = 64
    /\ faderButtonToggleState[0] = 1
    /\ sequencePatterns[2][3] = 5
    /\ deviceState = before

\* ----------------------------------------------------- claims: the patterns

Patterns == 0..7
AllZero(pattern) == \A c \in DOMAIN pattern : pattern[c] = 0
OthersKept(p) == \A q \in Patterns \ {p} : sequencePatterns'[q] = sequencePatterns[q]

\* C17: clearCurrentPattern() sets the 8 steps of the pattern selected to 0,
\* clearPattern(p) with p in 0..7 sets the 8 steps of pattern p to 0, both
\* leave every other pattern as it was, and clearPattern(p) with p outside
\* 0..7 changes no pattern.
C17_ClearOnePattern ==
    /\ [][clearCurrentPattern =>
            /\ DOMAIN sequencePatterns'[sideButtonRadioNum] = 0..7
            /\ AllZero(sequencePatterns'[sideButtonRadioNum])
            /\ OthersKept(sideButtonRadioNum)]_vars
    /\ [][\A p \in ClearIndices : clearPattern(p) =>
            IF p \in Patterns
              THEN /\ DOMAIN sequencePatterns'[p] = 0..7
                   /\ AllZero(sequencePatterns'[p])
                   /\ OthersKept(p)
              ELSE sequencePatterns' = sequencePatterns]_vars

\* C17 witness: pattern 0 is selected, pattern 2 held row 5 at step 3 and
\* clearPattern(2) has zeroed it, while pattern 0 keeps its row 5 at step 3.
C17_Witness ==
    /\ lastOp = <<"clearPattern", 2>>
    /\ before.sequencePatterns[2][3] = 5
    /\ AllZero(sequencePatterns[2])
    /\ sideButtonRadioNum = 0
    /\ sequencePatterns[0][3] = 5

\* the indices a caller hands to getSequenceValue
QueryIndices == {-2, -1, 0, 2, 3, 7, 8, 99}

\* C18: getSequenceValue(pattern, step) is sequencePatterns[pattern][step] when
\* both indices are in 0..7 and 0 when either is out of range.
C18_BoundsCheckedRead ==
    \A p \in QueryIndices : \A c \in QueryIndices :
        getSequenceValue(p, c) =
            IF p \in Patterns /\ c \in 0..7 THEN sequencePatterns[p][c] ELSE 0

\* C18 witness: step 3 of pattern 2 holds row 5, which the read returns, and
\* reads out of range return 0.
C18_Witness ==
    /\ sequencePatterns[2][3] = 5
    /\ getSequenceValue(2, 3) = 5
    /\ getSequenceValue(99, 3) = 0
    /\ getSequenceValue(2, 99) = 0
    /\ getSequenceValue(-1, 3) = 0
    /\ getSequenceValue(2, -1) = 0

\* C19: all 64 cells are 0 at startup, and in every reachable state the grid
\* has exactly the patterns 0..7, each of exactly the steps 0..7, and every
\* cell holds an integer in 0..7.
C19_GridShape ==
    /\ \A p \in Patterns : AllZero(sequencePatterns[p])
    /\ [](/\ DOMAIN sequencePatterns = Patterns
          /\ \A p \in Patterns :
                /\ DOMAIN sequencePatterns[p] = 0..7
                /\ \A c \in 0..7 : sequencePatterns[p][c] \in 0..7)

\* C19 witness: pattern 0 holds the top row (7) at step 7, and pattern 2, which
\* held row 5 at step 3, is selected and was just cleared.
C19_Witness ==
    /\ lastOp = <<"clearCurrentPattern">>
    /\ sideButtonRadioNum = 2
    /\ before.sequencePatterns[2][3] = 5
    /\ AllZero(sequencePatterns[2])
    /\ sequencePatterns[0][7] = 7

\* ------------------------------------------------------- claims: the taps

TapTimes == {k * TimeStep : k \in 0..(MaxTapTicks + 1)}
LastTap == tapTimes[Len(tapTimes)]

\* the tempo of a tap history: 60000 over its mean interval, rounded
TempoOf(taps) ==
    NumRound(NumDiv(Num(MS_PER_MINUTE * (Len(taps) - 1)), Num(taps[Len(taps)] - taps[1])))

\* C20: a tap more than 2000 ms after the tap before it discards the tap
\* history and stages nothing (it is a first tap: tempo and staged tempo stay);
\* a tap exactly 2000 ms after the tap before it keeps the history, and the
\* tempo of the history, if not the one in force, is staged.
C20_TapPauseDiscardsHistory ==
    /\ [][\A t \in TapTimes :
            (tapTempo(t) /\ Len(tapTimes) > 0 /\ t - LastTap > TAP_TIMEOUT) =>
                /\ tapTimes' = <<t>>
                /\ <<bpm, interval, pendingBPM, pendingBPMChange>>'
                      = <<bpm, interval, pendingBPM, pendingBPMChange>>]_vars
    /\ [][\A t \in TapTimes :
            (tapTempo(t) /\ Len(tapTimes) > 0 /\ t - LastTap = TAP_TIMEOUT) =>
                /\ Len(tapTimes') >= 2
                /\ tapTimes'[Len(tapTimes') - 1] = LastTap
                /\ tapTimes'[Len(tapTimes')] = t
                /\ bpm' = bpm
                /\ pendingBPM' = IF NumNeq(TempoOf(tapTimes'), bpm)
                                    THEN TempoOf(tapTimes') ELSE pendingBPM]_vars

\* C20 witness: taps 2000 ms apart staged the tempo 30, and a tap 2500 ms
\* after them left a history of that one tap and the tempo 30 staged.
C20_Witness ==
    /\ tapTimes = <<now>>
    /\ now = 2 * TAP_TIMEOUT + TAP_TIMEOUT \div 2
    /\ pendingBPM = Num(30)
    /\ bpm = Num(DEFAULT_BPM)

\* 60000 over the mean interval of a tap history, not rounded
QuotientOf(taps) ==
    NumDiv(Num(MS_PER_MINUTE * (Len(taps) - 1)), Num(taps[Len(taps)] - taps[1]))

EvenlySpaced(taps, gap) == \A i \in 2..Len(taps) : taps[i] - taps[i - 1] = gap

IsSuffix(s, t) == Len(s) <= Len(t) /\ s = SubSeq(t, Len(t) - Len(s) + 1, Len(t))

\* C22: the tap history holds at most 4 timestamps, in arrival order and no
\* two adjacent ones more than 2000 ms apart, and they are the latest taps
\* made: the history is the end of the log of all taps.
C22_TapHistoryWindow ==
    /\ Len(tapTimes) <= TAP_HISTORY_SIZE
    /\ \A i \in 2..Len(tapTimes) :
          /\ tapTimes[i - 1] <= tapTimes[i]
          /\ tapTimes[i] - tapTimes[i - 1] <= TAP_TIMEOUT
    /\ IsSuffix(tapTimes, batch)
    /\ batch # <<>> => tapTimes # <<>>

\* C22 witness: six taps were made, the last four no more than 2000 ms apart,
\* and the history holds those four.
C22_Witness ==
    /\ Len(batch) = 6
    /\ Len(tapTimes) = TAP_HISTORY_SIZE
    /\ tapTimes = SubSeq(batch, 3, 6)
    /\ tapTimes[2] - tapTimes[1] = TAP_TIMEOUT

\* ------------------------------------------------ claims: the beat position

IsWhole(a) == IsFin(a) /\ a[2] = 1

\* C23: the phase is at least 0 and less than the interval, the interval is
\* 60000 over the tempo in force, and beatCount is the whole part of getBeat(),
\* after every update, the one that commits a staged tempo included.
C23_PhaseWithinInterval ==
    /\ interval = NumDiv(Num(MS_PER_MINUTE), getBPM)
    /\ NumGeq(elapsed, Num(0))
    /\ NumLt(elapsed, interval)
    /\ NumFloor(getBeat) = beatCount

\* C24: at a constant tempo the beat position is the time since the start
\* over the interval, whatever the number and spacing of the updates that led
\* to it: beatCount is whole, the phase is in [0, interval), and beatCount
\* intervals plus the phase are the time elapsed (the clock started at 0).
C24_PositionIsElapsedTime ==
    /\ IsWhole(beatCount)
    /\ NumGeq(elapsed, Num(0)) /\ NumLt(elapsed, interval)
    /\ getBeat = NumDiv(Num(now), interval)

\* C24 witness: at tempo 60, 2750 ms after the start, the position is 2 beats
\* and 750 ms.
C24_Witness ==
    /\ bpm = Num(60)
    /\ now = 11 * TimeStep
    /\ beatCount = Num(2)
    /\ elapsed = Num(3 * TimeStep)

\* C25: an update of a stopped clock changes neither beatCount, the phase, the
\* tempo, the interval nor the staged tempo, so getBeat() stays; it commits no
\* staged tempo.
C25_StoppedUpdateIsNoOp ==
    [][\A t \in Times :
         (update(t) /\ ~isPlaying) =>
             /\ <<beatCount, elapsed, bpm, interval, pendingBPM, pendingBPMChange>>'
                   = <<beatCount, elapsed, bpm, interval, pendingBPM, pendingBPMChange>>
             /\ getBeat' = getBeat
             /\ lastUpdateTime' = lastUpdateTime]_vars

\* C25 witness: the clock is stopped with a tempo staged, and an update has
\* run at a time by which a running clock would have crossed a beat.
C25_Witness ==
    /\ ~isPlaying
    /\ pendingBPM # Null
    /\ now > lastUpdateTime
    /\ NumGeq(NumAdd(elapsed, Num(now - lastUpdateTime)), interval)

\* C26: start() on a running clock changes nothing; start() on a stopped
\* clock sets isPlaying, sets beatCount to 0 and takes the current time as
\* lastUpdateTime, the baseline of the next update.
C26_StartIdempotentWhileRunning ==
    [][\A t \in Times : start(t) =>
         IF isPlaying
           THEN clockVars' = clockVars
           ELSE /\ isPlaying'
                /\ beatCount' = Num(0)
                /\ lastUpdateTime' = t
                /\ now' = t]_vars

\* C26 witness: the clock runs at beat count 0 from the baseline 2000 ms, a
\* time by which a clock never stopped would have counted beats.
C26_Witness ==
    /\ isPlaying
    /\ beatCount = Num(0)
    /\ lastUpdateTime = TAP_TIMEOUT
    /\ now = lastUpdateTime
    /\ elapsed = Num(TimeStep)

\* ------------------------------------------------- claims: the indicators

AllIndicators == (GRID_START..GRID_END) \cup (FADER_BUTTONS_START..FADER_BUTTONS_END)
                    \cup (SIDE_BUTTONS_START..SIDE_BUTTONS_END) \cup {FADER_BUTTON_8}
FrameChannels == {sent[k][2] : k \in 1..Len(sent)}
PanelState == <<sequencePatterns, sideButtonRadioNum, sideButtonToggleState,
                faderButtonToggleState, faderRandomModeActive, faderValuesPrev>>

\* the frame in sent shows the device state: every indicator is addressed, the
\* grid cells carry the colour of their rule and the indicator of the pattern
\* selected is lit
FrameShowsState ==
    /\ FrameChannels = AllIndicators
    /\ C7_FeedbackPriority
    /\ SentTo(SIDE_BUTTONS_START + sideButtonRadioNum) = {MIDI_MAX}

\* C27: while the MIDI output is not open nothing is sent; an update without
\* output leaves grid, pattern selected and toggles as they are; messages are
\* decoded without output as with it; and an update with the output open, the
\* first after it opens included, sends the whole frame of the state it finds.
C27_NoOutputNoFrame ==
    /\ [](~midiSuccess => sent = <<>>)
    /\ [][\A step \in PanelSteps : \A pulse \in [RandomFaders -> Pulses] :
            sequencerUpdate(step, pulse) =>
                /\ PanelState' = PanelState
                /\ midiSuccess => FrameShowsState']_vars
    /\ [][\A m \in PanelMsgs : (handleMIDIMessage(m) /\ ~midiSuccess) =>
            /\ IsPadDown(m) =>
                  sequencePatterns'[sideButtonRadioNum][padCol(m[2])] = padRow(m[2])
            /\ IsSelectDown(m) => sideButtonRadioNum' = m[2] - SIDE_BUTTONS_START
            /\ m[2] = FADER_BUTTONS_START =>
                  Flipped(faderButtonToggleState, faderButtonToggleState', 0)]_vars

\* C27 witness: an update for step 3 has just run without output and sent
\* nothing, with row 5 at step 3 of the selected pattern 2 and fader button 0
\* down.
C27_Witness ==
    /\ lastOp = <<"update">>
    /\ ~midiSuccess
    /\ sent = <<>>
    /\ currentStep = 3
    /\ sideButtonRadioNum = 2
    /\ sequencePatterns[2][3] = 5
    /\ faderButtonToggleState[0] = 1

\* C28: in every frame the indicator of the pattern selected (112 +
\* sideButtonRadioNum) is sent at the maximum, 127, which is its pattern colour
\* plus the offset, capped, and the seven other pattern-select indicators are
\* sent as 0.
C28_SelectIndicators ==
    sent # <<>> =>
        \A i \in 0..7 :
            SentTo(SIDE_BUTTONS_START + i) =
                IF i = sideButtonRadioNum THEN {MIDI_MAX} ELSE {APC_OFF}

\* C28 witness: a frame sent with pattern 2 selected: 114 is at 127, 112 at 0.
C28_Witness ==
    /\ sent # <<>>
    /\ sideButtonRadioNum = 2
    /\ SentTo(114) = {MIDI_MAX}
    /\ SentTo(112) = {APC_OFF}
    /\ PATTERN_COLORS[3] + MAX_INTENSITY_OFFSET >= MIDI_MAX

\* the value of the last message of the frame for a channel
LastSentTo(midiNote) ==
    sent[SetMax({k \in 1..Len(sent) : sent[k][2] = midiNote})][3]

FaderButtonNote(i) == IF i < 8 THEN FADER_BUTTONS_START + i ELSE FADER_BUTTON_8

\* C29: in every frame, for each i in 0..8, the indicator of fader button i
\* (100..107, and 122 for i = 8) ends the frame at the maximum if
\* faderButtonToggleState[i] is set and at 0 if it is not.
C29_FaderButtonIndicators ==
    sent # <<>> =>
        \A i \in Faders :
            LastSentTo(FaderButtonNote(i)) =
                IF Truthy(faderButtonToggleState, i)
                  THEN MIDI_MAX ELSE APC_OFF

\* ------------------------------------------------- claims: the input queue

\* a message of the arrival-order runs applied to a grid and a selection
AppliedTo(state, m) ==
    IF IsSelectDown(m) THEN [state EXCEPT !.radio = m[2] - SIDE_BUTTONS_START]
    ELSE IF IsPadDown(m)
      THEN [state EXCEPT !.grid[state.radio][m[2] % 8] = 7 - (m[2] \div 8)]
    ELSE state

RECURSIVE Drained(_, _)
Drained(state, msgs) ==
    IF msgs = <<>> THEN state ELSE Drained(AppliedTo(state, Head(msgs)), Tail(msgs))

\* C30: the messages that arrive between two updates wait: grid and pattern
\* selected stay as the last update left them until the next update, which
\* applies each waiting message once, in arrival order.
C30_InputDrainedAtTick ==
    /\ [](sequencePatterns = atTick.grid /\ sideButtonRadioNum = atTick.radio)
    /\ [][batch' = <<>> =>
            /\ sequencePatterns' = Drained(atTick, batch).grid
            /\ sideButtonRadioNum' = Drained(atTick, batch).radio]_vars

\* ---------------------------------------------------- claims: the host

\* a frame of the host: SceneManager.update() ran in this step
IsSceneUpdate == lastOp' = <<"update">>

\* C31: on every frame the step handed to the sequencer and the renderers is
\* an integer in 0..7, equal to floor(getBeat()) mod 8; a frame that crosses
\* exactly one beat boundary moves the step from s to (s + 1) mod 8.
C31_StepFollowsBeat ==
    [][IsSceneUpdate =>
         /\ currentStep' \in 0..7
         /\ Num(currentStep') = NumMod(NumFloor(getBeat'), Num(8))
         /\ beatCount' = NumAdd(beatCount, Num(1)) =>
              currentStep' = (currentStep + 1) % 8]_vars

\* --------------------------------------------- claims: the clock, continued

\* C32: after an update, isBeatUpdatedNow() is true if and only if that
\* update increased beatCount; it is false after an update that crossed no
\* boundary and after any update of a stopped clock.
C32_FlagIffBeatCounted ==
    [][\A t \in Times :
         update(t) =>
             /\ isBeatUpdatedNow' <=> NumLt(beatCount, beatCount')
             /\ ~isPlaying => ~isBeatUpdatedNow']_vars

\* C32 witness: the update that counted the second beat has just run
C32_Witness ==
    /\ isPlaying
    /\ isBeatUpdatedNow
    /\ beatCount = Num(2)
    /\ now = lastUpdateTime

\* a - b, for a finite b
Less(a, b) == NumAdd(a, <<-b[1], b[2]>>)

\* C33: an update that crosses a boundary with a tempo staged commits it at
\* the first boundary: one beat is counted with the old interval, and the
\* time left after that boundary is counted, beat by beat, with the staged
\* tempo's interval 60000 / pendingBPM; nothing is staged afterwards.
C33_RestCountedAtNewTempo ==
    [][\A t \in Times :
         LET e == NumAdd(elapsed, Num(t - lastUpdateTime))
             rest == Less(e, interval)
             staged == NumDiv(Num(MS_PER_MINUTE), pendingBPM)
         IN (update(t) /\ isPlaying /\ commitsPending /\ NumGeq(e, interval)) =>
               /\ pendingBPM' = Null
               /\ bpm' = pendingBPM
               /\ interval' = staged
               /\ beatCount' = NumAdd(NumAdd(beatCount, Num(1)),
                                      NumFloor(NumDiv(rest, staged)))
               /\ elapsed' = NumMod(rest, staged)]_vars

\* C34: the tempo asked for last wins: the update that crosses the next beat
\* boundary after setBPM(x) leaves x in force, also when x is the tempo in
\* force and another tempo is still staged from an earlier request.
C34_LastRequestWins ==
    [][\A t \in Times :
         (/\ update(t)
          /\ isPlaying
          /\ NumGeq(NumAdd(elapsed, Num(t - lastUpdateTime)), interval)
          /\ batch # <<>>) => getBPM' = batch[1]]_vars

\* C35: while the clock runs and update() keeps being called as time passes,
\* a staged tempo x is eventually committed (nothing staged, getBPM() = x)
\* unless a later request replaces it or the clock is stopped; a stopped
\* clock commits nothing.
C35_StagedTempoCommitted ==
    /\ \A x \in ValidBPMs :
         (isPlaying /\ pendingBPM = x)
            ~> \/ pendingBPM = Null /\ getBPM = x
               \/ pendingBPM \notin {x, Null}
               \/ ~isPlaying
    /\ [][~isPlaying => /\ getBPM' = getBPM
                        /\ pendingBPM # Null => pendingBPM' # Null]_vars

\* C35 witness: a running clock has committed the staged tempo 60 at the
\* boundary it has just crossed
C35_Witness ==
    /\ isPlaying
    /\ isBeatUpdatedNow
    /\ getBPM = Num(60)
    /\ pendingBPM = Null
    /\ ~pendingBPMChange

\* ---------------------------------------- claims: the indicators, continued

\* C36: every frame sent while the MIDI output is open has one message for
\* each indicator, 64 pads, 8 pattern-select buttons and 9 fader buttons: 81
\* messages, no indicator addressed twice, whatever messages came before.
C36_OneMessagePerIndicator ==
    (midiSuccess /\ sent # <<>>) =>
        /\ Len(sent) = GRID_COLS * GRID_ROWS + 8 + 9
        /\ FrameChannels = AllIndicators
        /\ \A j, k \in 1..Len(sent) : sent[j][2] = sent[k][2] => j = k

\* the pads of a column that a frame lights in a colour
ColouredPads(frame, col, colour) ==
    {frame[k][2] : k \in {j \in 1..Len(frame) : /\ frame[j][2] \in GRID_START..GRID_END
                                                 /\ frame[j][2] % GRID_COLS = col
                                                 /\ frame[j][3] = colour}}

\* C37: decoding and encoding address the pads alike: after a press of pad n
\* with pattern p selected, the frame of any step lights, in p's colour, pad n
\* and no other pad of column n mod 8; and every frame sent lights exactly one
\* pad of each column in the selected pattern's colour, the row-0 pad (56 +
\* column) where the step holds 0.
C37_PadAddressingRoundTrip ==
    /\ [][\A m \in SeqMsgs : (handleMIDIMessage(m) /\ IsPadDown(m)) =>
            \A step \in Steps :
               ColouredPads(gridLEDs(step)', m[2] % GRID_COLS,
                            PATTERN_COLORS[sideButtonRadioNum' + 1]) = {m[2]}]_vars
    /\ [](sent # <<>> =>
            \A col \in 0..7 :
               LET lit == ColouredPads(sent, col, PATTERN_COLORS[sideButtonRadioNum + 1])
               IN /\ Cardinality(lit) = 1
                  /\ sequencePatterns[sideButtonRadioNum][col] = 0 => lit = {56 + col})

\* C37 witness: after presses of pads 19 and 44 with pattern 0 selected, a
\* frame for step 4 lights both in pattern 0's colour, and the row-0 pads of
\* the columns left alone
C37_Witness ==
    /\ sent # <<>>
    /\ currentStep = 4
    /\ sideButtonRadioNum = 0
    /\ SentTo(19) = {PATTERN_COLORS[1]}
    /\ SentTo(44) = {PATTERN_COLORS[1]}
    /\ SentTo(56) = {PATTERN_COLORS[1]}

\* ---------------------------------------------- claims: the host, continued

\* the clear fader is at the top in this frame and was below it in the frame
\* before (before holds the device state the frame before started from; the
\* first frame compares with the state after construction)
RisingEdge == Get(faderValues', 8) >= MIDI_MAX /\ Get(before.faderValues, 8) < MIDI_MAX

\* C38: a frame clears the pattern selected, and only that pattern, exactly
\* when the clear fader (the ninth) reads 1 or more and read less than 1 in
\* the frame before; every other frame leaves the grid as the messages since
\* made it, however long the fader stays at 1.
C38_ClearOnRisingEdge ==
    [][IsSceneUpdate =>
         /\ sideButtonRadioNum' = sideButtonRadioNum
         /\ RisingEdge => /\ AllZero(sequencePatterns'[sideButtonRadioNum])
                          /\ OthersKept(sideButtonRadioNum)
         /\ ~RisingEdge => sequencePatterns' = sequencePatterns]_vars

\* C38 witness: the frame that has just run found the clear fader at the top
\* and cleared pattern 1, in which step 0 held row 5; pattern 0 keeps its row 5
C38_Witness ==
    /\ lastOp = <<"update">>
    /\ Get(faderValues, 8) = MIDI_MAX
    /\ sideButtonRadioNum = 1
    /\ before.sequencePatterns[1][0] = 5
    /\ AllZero(sequencePatterns[1])
    /\ sequencePatterns[0][0] = 5

\* C39: within a frame of the host, the frame sent to the device and the
\* step values the renderers read come from the same grid: the pad lit in the
\* selected pattern's colour in the currentStep column is the one of the row
\* the renderer of that pattern reads.
C39_FrameMatchesRendered ==
    (lastOp = <<"update">> /\ sent # <<>>) =>
        ColouredPads(sent, currentStep, PATTERN_COLORS[sideButtonRadioNum + 1])
           = {PadOf(rendered[sideButtonRadioNum], currentStep)}

\* C39, amended: the frame sent shows the grid as the host's frame found it,
\* the renderers read the grid as the frame leaves it, and the two are the
\* same grid unless the clear fader fires in this frame: then the frame sent
\* still shows the selected pattern's rows and the renderers read zeros.
C39_FrameBeforeClearRenderedAfter ==
    [][(IsSceneUpdate /\ midiSuccess) =>
         /\ \A col \in 0..7 :
               ColouredPads(sent', col, PATTERN_COLORS[sideButtonRadioNum + 1])
                  = {PadOf(sequencePatterns[sideButtonRadioNum][col], col)}
         /\ \A p \in Patterns : rendered'[p] = sequencePatterns'[p][currentStep']
         /\ ~RisingEdge => sequencePatterns' = sequencePatterns
         /\ RisingEdge => rendered'[sideButtonRadioNum] = 0]_vars

\* C39 witness: the clear fader fired in the frame that has just run, at step
\* 0 with row 5 in step 0 of the selected pattern 0: the frame sent lights pad
\* 16 (row 5) and the renderer of pattern 0 read row 0
C39_Witness ==
    /\ lastOp = <<"update">>
    /\ sent # <<>>
    /\ currentStep = 0
    /\ sideButtonRadioNum = 0
    /\ before.sequencePatterns[0][0] = 5
    /\ SentTo(16) = {PATTERN_COLORS[1]}
    /\ rendered[0] = 0

====
